---- MODULE Spec2Model ----
(***************************************************************************)
(* SLA Tracker & Escalator: the application loop (SLATrackerApp), one SLA  *)
(* check cycle (SLATracker.checkSLAs), the status computation              *)
(* (calculateSLAStatus) and the tiered notification dispatch               *)
(* (sendNotifications).                                                    *)
(*                                                                         *)
(* Time is in milliseconds, the resolution of moment().  Fractions of the  *)
(* SLA time are in thousandths (0.8 is 800) and rounded hour figures in    *)
(* hundredths of an hour, which is exactly what Math.round(x*1000)/1000    *)
(* and Math.round(x*100)/100 keep of a value.  Arithmetic is exact.        *)
(***************************************************************************)
EXTENDS Integers, Sequences, FiniteSets, TLC

\* ------------------------------------------------------------------ bounds

\* Number of firings of the cron schedule that are explored.
MaxTriggers == 2

\* Longest ticket list the data reader returns.
MaxTickets == 2

\* Largest number of rows of the data source file.
MaxRows == 2

\* --------------------------------------------------------------- constants

\* moment's diff(..., 'hours', true) divides milliseconds by 36e5.
MS_PER_HOUR == 3600000

\* SLATracker.constructor: escalationThresholds 0.8 and 0.95, in thousandths.
escalationThresholds == [warning |-> 800, critical |-> 950]

\* The tickets the data reader may hand over (normalised: id and created_at
\* present, priority a valid name in any letter case).
TicketPool ==
    { [id |-> "T1", priority |-> "high", created_at |-> 0],
      [id |-> "T2", priority |-> "Critical", created_at |-> 4 * MS_PER_HOUR] }

\* Wall-clock readings moment() may return, chosen around the thresholds of
\* the tickets above: 6.3976h, 6.4h, 7.6h, 8h and 8h + 1ms.
ClockReadings == { 23031360, 23040000, 27360000, 28800000, 28800001 }

\* The order in which sendNotifications goes through the tiers.
TierOrder == <<"violation", "critical", "warning">>

VARIABLES
    phase,      \* "constructed", "starting", "scheduled" or "exited"
    isRunning,  \* SLATrackerApp.isRunning
    execs,      \* executions of checkSLAs in progress, by invocation number
    started,    \* number of invocations of checkSLAs so far
    triggers,   \* number of firings of the cron schedule so far
    dropped,    \* number of firings that found isRunning set
    clock,      \* the latest wall-clock reading
    last,       \* <<>> or <<the execution of checkSLAs that settled last>>
    env,        \* process.env: the *_SLA_HOURS settings, "" when not set
    reader,     \* the data source file and what getTickets made of it
    probe       \* <<>> or <<the latest evaluation of a ticket of the reader>>

vars ==
    <<phase, isRunning, execs, started, triggers, dropped, clock, last,
      env, reader, probe>>

\* The variables of the application loop.
appVars == <<phase, isRunning, execs, started, triggers, dropped, clock, last>>

\* The variables of the configuration and the data reader.
dataVars == <<env, reader, probe>>

\* ------------------------------------------------------------- constructor

\* process.env with none of the SLA hour settings.
EnvUnset ==
    [ CRITICAL_SLA_HOURS |-> "", HIGH_SLA_HOURS |-> "", MEDIUM_SLA_HOURS |-> "",
      LOW_SLA_HOURS |-> "", DEFAULT_SLA_HOURS |-> "" ]

\* The environments explored: nothing set, a negative, a zero and an
\* unparsable setting, and medium and default hours that differ.
EnvChoices ==
    { EnvUnset,
      [EnvUnset EXCEPT !.HIGH_SLA_HOURS = "-5"],
      [EnvUnset EXCEPT !.MEDIUM_SLA_HOURS = "12"],
      [EnvUnset EXCEPT !.LOW_SLA_HOURS = "0", !.DEFAULT_SLA_HOURS = "abc"],
      [EnvUnset EXCEPT !.CRITICAL_SLA_HOURS = "2", !.DEFAULT_SLA_HOURS = "48"] }

\* parseInt on the settings in use: <<n>> for a number, <<>> for NaN (an
\* unset variable is undefined, which parses to NaN).
ParseInt(s) ==
    CASE s = "2" -> <<2>>
      [] s = "12" -> <<12>>
      [] s = "48" -> <<48>>
      [] s = "0" -> <<0>>
      [] s = "-5" -> <<0 - 5>>
      [] OTHER -> <<>>

\* parseInt(setting) || fallback: NaN and 0 are falsy.
ParseIntOr(s, fallback) ==
    LET n == ParseInt(s)
    IN  IF n = <<>> THEN fallback
        ELSE IF n[1] = 0 THEN fallback ELSE n[1]

\* SLATracker.constructor: slaConfig.
slaConfig ==
    [ critical |-> ParseIntOr(env.CRITICAL_SLA_HOURS, 4),
      high |-> ParseIntOr(env.HIGH_SLA_HOURS, 8),
      medium |-> ParseIntOr(env.MEDIUM_SLA_HOURS, 24),
      low |-> ParseIntOr(env.LOW_SLA_HOURS, 72),
      default |-> ParseIntOr(env.DEFAULT_SLA_HOURS, 24) ]

\* ------------------------------------------------------ calculateSLAStatus

\* String.prototype.toLowerCase on the priority and status names in use.
ToLowerCase(s) ==
    CASE s = "Critical" -> "critical"
      [] s = "High" -> "high"
      [] s = "HIGH" -> "high"
      [] s = "Open" -> "open"
      [] s = "Closed" -> "closed"
      [] s = "Medium" -> "medium"
      [] s = "Low" -> "low"
      [] OTHER -> s

\* Math.round(n / d) for d > 0: the nearest integer, halves towards +infinity.
MathRound(n, d) == (2 * n + d) \div (2 * d)

\* A fraction that counts the time left instead of the time used.
PercentageOfRemaining(e, slaHours) ==
    MathRound(slaHours * MS_PER_HOUR - e, (MS_PER_HOUR \div 1000) * slaHours)

\* The fraction of the SLA time used at elapsed milliseconds e, as stored in
\* slaStatus.percentageUsed: Math.round(e / 36e5 / slaHours * 1000) / 1000.
PercentageUsed(e, slaHours) == MathRound(e, (MS_PER_HOUR \div 1000) * slaHours)

\* A deadline comparison that includes the deadline instant itself.
IsSameOrAfter(now, slaDeadline) == now >= slaDeadline

\* now.isAfter(slaDeadline)
IsAfter(now, slaDeadline) == now > slaDeadline

\* config[priority] || config.default
HoursFor(config, priority) ==
    IF priority \in DOMAIN config /\ config[priority] # 0
    THEN config[priority] ELSE config.default

\* A status whose hoursOverdue is the distance to the deadline whether or
\* not the deadline has passed.
calculateSLAStatusOverdueAlways(ticket, now) ==
    LET priority == IF ticket.priority # ""
                    THEN ToLowerCase(ticket.priority) ELSE "medium"
        slaHours == HoursFor(slaConfig, priority)
        slaDeadline == ticket.created_at + slaHours * MS_PER_HOUR
        hoursElapsed == now - ticket.created_at
        hoursRemaining == slaDeadline - now
        isViolated == IsAfter(now, slaDeadline)
        hoursOverdue == IF hoursRemaining < 0 THEN -hoursRemaining
                        ELSE hoursRemaining
    IN  [ slaHours |-> slaHours,
          hoursElapsed |-> MathRound(hoursElapsed, MS_PER_HOUR \div 100),
          hoursRemaining |-> MathRound(hoursRemaining, MS_PER_HOUR \div 100),
          percentageUsed |-> PercentageUsed(hoursElapsed, slaHours),
          isViolated |-> isViolated,
          hoursOverdue |-> MathRound(hoursOverdue, MS_PER_HOUR \div 100),
          slaDeadline |-> slaDeadline \div 1000,
          priority |-> priority ]

calculateSLAStatus(ticket, now) ==
    LET priority == IF ticket.priority # ""
                    THEN ToLowerCase(ticket.priority) ELSE "medium"
        slaHours == HoursFor(slaConfig, priority)
        slaDeadline == ticket.created_at + slaHours * MS_PER_HOUR
        hoursElapsed == now - ticket.created_at
        hoursRemaining == slaDeadline - now
        isViolated == IsAfter(now, slaDeadline)
        hoursOverdue == IF isViolated
                        THEN (IF hoursRemaining < 0 THEN -hoursRemaining
                              ELSE hoursRemaining)
                        ELSE 0
    IN  [ slaHours |-> slaHours,
          hoursElapsed |-> MathRound(hoursElapsed, MS_PER_HOUR \div 100),
          hoursRemaining |-> MathRound(hoursRemaining, MS_PER_HOUR \div 100),
          percentageUsed |-> PercentageUsed(hoursElapsed, slaHours),
          isViolated |-> isViolated,
          hoursOverdue |-> MathRound(hoursOverdue, MS_PER_HOUR \div 100),
          slaDeadline |-> slaDeadline \div 1000,
          priority |-> priority ]

\* -------------------------------------------------------------- DataReader

\* Rows of the data source file (a CSV row or an element of the JSON array),
\* by their id, priority, status and created_at fields; "" is a field that
\* is empty or absent.
RawPool ==
    { [id |-> "T1", priority |-> "high", status |-> "open",
       created_at |-> "1970-01-01T00:00:00.000Z"],
      [id |-> "T2", priority |-> "Critical", status |-> "",
       created_at |-> "1970-01-01T04:00:00.000Z"],
      [id |-> "T3", priority |-> "urgent", status |-> "Open",
       created_at |-> "1970-01-01T00:00:00Z"],
      [id |-> "T4", priority |-> "", status |-> "open",
       created_at |-> "1970-01-01T00:00:00Z"],
      [id |-> "T5", priority |-> "high", status |-> "open",
       created_at |-> "not-a-date"],
      [id |-> "T6", priority |-> "low", status |-> "Closed",
       created_at |-> "1970-01-01T00:00:00Z"],
      [id |-> "T7", priority |-> "HIGH", status |-> "open",
       created_at |-> "1970-01-01T09:00:00Z"],
      [id |-> "", priority |-> "medium", status |-> "open",
       created_at |-> "1970-01-01T00:00:00Z"],
      [id |-> "T9", priority |-> "medium", status |-> "open",
       created_at |-> ""] }

\* new Date(s).getTime() on the date strings in use: <<ms>>, or <<>> for NaN.
DateGetTime(s) ==
    CASE s = "1970-01-01T00:00:00Z" -> <<0>>
      [] s = "1970-01-01T00:00:00.000Z" -> <<0>>
      [] s = "1970-01-01T04:00:00.000Z" -> <<4 * MS_PER_HOUR>>
      [] s = "1970-01-01T09:00:00Z" -> <<9 * MS_PER_HOUR>>
      [] s = "1970-01-01T09:00:00.000Z" -> <<9 * MS_PER_HOUR>>
      [] OTHER -> <<>>

\* Date.prototype.toISOString on the instants in use.
ToISOString(ms) ==
    CASE ms = 0 -> "1970-01-01T00:00:00.000Z"
      [] ms = 4 * MS_PER_HOUR -> "1970-01-01T04:00:00.000Z"
      [] ms = 9 * MS_PER_HOUR -> "1970-01-01T09:00:00.000Z"

\* normalizeTicket: the ticket built from a row, or threw when created_at is
\* there and is no date.
normalizeTicket(rawTicket) ==
    LET ticket ==
            [ id |-> rawTicket.id,
              priority |-> IF rawTicket.priority # ""
                           THEN rawTicket.priority ELSE "medium",
              status |-> IF rawTicket.status # ""
                         THEN rawTicket.status ELSE "open",
              created_at |-> rawTicket.created_at ]
        date == DateGetTime(ticket.created_at)
    IN  IF ticket.created_at = "" THEN [threw |-> FALSE, ticket |-> ticket]
        ELSE IF date = <<>> THEN [threw |-> TRUE, ticket |-> ticket]
        ELSE [ threw |-> FALSE,
               ticket |-> [ticket EXCEPT !.created_at = ToISOString(date[1])] ]

validPriorities == {"critical", "high", "medium", "low"}

activeStatuses == {"open", "in-progress", "pending", "waiting", "new"}

\* An isValidTicket that logs an invalid priority and leaves it in place.
isValidTicketKeepsPriority(ticket) ==
    IF ticket.id = "" \/ ticket.created_at = ""
    THEN [valid |-> FALSE, ticket |-> ticket]
    ELSE IF /\ ticket.status # ""
            /\ ToLowerCase(ticket.status) \notin activeStatuses
         THEN [valid |-> FALSE, ticket |-> ticket]
         ELSE [valid |-> TRUE, ticket |-> ticket]

\* isValidTicket: its result, and the ticket as it leaves it (an invalid
\* priority is overwritten with 'medium').
isValidTicket(ticket) ==
    IF ticket.id = "" \/ ticket.created_at = ""
    THEN [valid |-> FALSE, ticket |-> ticket]
    ELSE LET t == IF /\ ticket.priority # ""
                     /\ ToLowerCase(ticket.priority) \notin validPriorities
                  THEN [ticket EXCEPT !.priority = "medium"]
                  ELSE ticket
         IN  IF /\ t.status # ""
                /\ ToLowerCase(t.status) \notin activeStatuses
             THEN [valid |-> FALSE, ticket |-> t]
             ELSE [valid |-> TRUE, ticket |-> t]

\* readCSV from row i on: a row that normalizeTicket throws on is skipped
\* with a warning, a row that is not valid is left out.
RECURSIVE readCSV(_, _, _)
readCSV(rows, i, tickets) ==
    IF i > Len(rows) THEN [rejected |-> FALSE, tickets |-> tickets]
    ELSE LET n == normalizeTicket(rows[i])
             v == isValidTicket(n.ticket)
         IN  readCSV(rows, i + 1,
                     IF ~n.threw /\ v.valid
                     THEN Append(tickets, v.ticket) ELSE tickets)

\* The filter of readJSON from position i on.
RECURSIVE Filter(_, _, _)
Filter(normalized, i, tickets) ==
    IF i > Len(normalized) THEN tickets
    ELSE LET v == isValidTicket(normalized[i])
         IN  Filter(normalized, i + 1,
                    IF v.valid THEN Append(tickets, v.ticket) ELSE tickets)

\* readJSON: map(normalizeTicket) then filter(isValidTicket), inside one
\* try block whose catch rethrows.
readJSON(rows) ==
    IF \E i \in DOMAIN rows : normalizeTicket(rows[i]).threw
    THEN [rejected |-> TRUE, tickets |-> <<>>]
    ELSE [ rejected |-> FALSE,
           tickets |-> Filter([i \in DOMAIN rows |->
                                  normalizeTicket(rows[i]).ticket], 1, <<>>) ]

\* getTickets on a file that exists, by dataSourceType.
getTickets(type, rows) ==
    IF type = "csv" THEN readCSV(rows, 1, <<>>) ELSE readJSON(rows)

\* The files explored.
RowLists == UNION { [1..n -> RawPool] : n \in 0..MaxRows }

\* A data reader that has not been asked yet.
NoSource ==
    [type |-> "csv", rows |-> <<>>, state |-> "pending", tickets |-> <<>>]

Sources ==
    { [NoSource EXCEPT !.type = type, !.rows = rows] :
        type \in {"csv", "json"}, rows \in RowLists }

\* --------------------------------------------------------------- checkSLAs

\* A chain that tests the critical threshold before isViolated.
ClassifyCriticalFirst(slaStatus) ==
    IF slaStatus.percentageUsed >= escalationThresholds.critical
    THEN "critical"
    ELSE IF slaStatus.isViolated THEN "violation"
    ELSE IF slaStatus.percentageUsed >= escalationThresholds.warning
         THEN "warning"
    ELSE "none"

\* The if / else-if chain of the loop body: the list an evaluated ticket is
\* pushed to, or "none".
Classify(slaStatus) ==
    IF slaStatus.isViolated THEN "violation"
    ELSE IF slaStatus.percentageUsed >= escalationThresholds.critical
         THEN "critical"
    ELSE IF slaStatus.percentageUsed >= escalationThresholds.warning
         THEN "warning"
    ELSE "none"

\* Lists kept from the cycle that settled last instead of fresh ones.
CarriedBatches ==
    IF last = <<>>
    THEN [slaViolations |-> <<>>, criticalTickets |-> <<>>,
          warningTickets |-> <<>>]
    ELSE [slaViolations |-> last[1].slaViolations,
          criticalTickets |-> last[1].criticalTickets,
          warningTickets |-> last[1].warningTickets]

\* The three lists before the loop.
EmptyBatches ==
    [slaViolations |-> <<>>, criticalTickets |-> <<>>, warningTickets |-> <<>>]

\* A loop whose tests are separate ifs: a violated ticket past the critical
\* threshold is pushed to both lists.
RECURSIVE ForEachTicketNoElse(_, _, _, _)
ForEachTicketNoElse(tickets, times, i, acc) ==
    IF i > Len(tickets) THEN acc
    ELSE LET slaStatus == calculateSLAStatus(tickets[i], times[i])
             entry == [ticket |-> tickets[i], slaStatus |-> slaStatus, pos |-> i]
             a == IF slaStatus.isViolated
                  THEN [acc EXCEPT !.slaViolations = Append(@, entry)] ELSE acc
             b == IF slaStatus.percentageUsed >= escalationThresholds.critical
                  THEN [a EXCEPT !.criticalTickets = Append(@, entry)] ELSE a
             c == IF /\ ~slaStatus.isViolated
                     /\ slaStatus.percentageUsed < escalationThresholds.critical
                     /\ slaStatus.percentageUsed >= escalationThresholds.warning
                  THEN [b EXCEPT !.warningTickets = Append(@, entry)] ELSE b
         IN  ForEachTicketNoElse(tickets, times, i + 1, c)

\* A loop that puts each entry at the front of its list (unshift for push).
RECURSIVE ForEachTicketUnshift(_, _, _, _)
ForEachTicketUnshift(tickets, times, i, acc) ==
    IF i > Len(tickets) THEN acc
    ELSE LET slaStatus == calculateSLAStatus(tickets[i], times[i])
             entry == [ticket |-> tickets[i], slaStatus |-> slaStatus, pos |-> i]
             tier == Classify(slaStatus)
             next ==
                 CASE tier = "violation" ->
                        [acc EXCEPT !.slaViolations = <<entry>> \o @]
                   [] tier = "critical" ->
                        [acc EXCEPT !.criticalTickets = <<entry>> \o @]
                   [] tier = "warning" ->
                        [acc EXCEPT !.warningTickets = <<entry>> \o @]
                   [] OTHER -> acc
         IN  ForEachTicketUnshift(tickets, times, i + 1, next)

\* The for loop over the tickets, from position i on.  times[i] is what
\* moment() returns in the i-th call of calculateSLAStatus; pos records the
\* position of the ticket in the list.
RECURSIVE ForEachTicket(_, _, _, _)
ForEachTicket(tickets, times, i, acc) ==
    IF i > Len(tickets) THEN acc
    ELSE LET slaStatus == calculateSLAStatus(tickets[i], times[i])
             entry == [ticket |-> tickets[i], slaStatus |-> slaStatus, pos |-> i]
             tier == Classify(slaStatus)
             next ==
                 CASE tier = "violation" ->
                        [acc EXCEPT !.slaViolations = Append(@, entry)]
                   [] tier = "critical" ->
                        [acc EXCEPT !.criticalTickets = Append(@, entry)]
                   [] tier = "warning" ->
                        [acc EXCEPT !.warningTickets = Append(@, entry)]
                   [] OTHER -> acc
         IN  ForEachTicket(tickets, times, i + 1, next)

\* The lists the data reader may resolve getTickets() with.
TicketLists == UNION { [1..n -> TicketPool] : n \in 0..MaxTickets }

\* The successive readings of the wall clock during one loop over n tickets:
\* no reading is earlier than the one before it.
ReadingsFrom(n) ==
    { t \in [1..n -> ClockReadings] :
        /\ n > 0 => t[1] >= clock
        /\ \A i \in 1..(n - 1) : t[i] <= t[i + 1] }

\* ------------------------------------------------------- sendNotifications

BatchOf(x, tier) ==
    CASE tier = "violation" -> x.slaViolations
      [] tier = "critical" -> x.criticalTickets
      [] tier = "warning" -> x.warningTickets

\* The first tier from position `from` of TierOrder on whose list is not
\* empty, 0 when there is none.
NextNonEmpty(x, from) ==
    LET c == { k \in from..Len(TierOrder) : Len(BatchOf(x, TierOrder[k])) > 0 }
    IN  IF c = {} THEN 0 ELSE CHOOSE k \in c : \A j \in c : k <= j

\* ------------------------------------------------- the caller of checkSLAs

\* A callback that clears isRunning only after a successful check.
IsRunningAfterNoFinally(caller, outcome) ==
    IF caller = "cron" /\ outcome = "completed" THEN FALSE ELSE isRunning

\* A callback whose flag stays set after a failed check.
IsRunningAfterFailureStuck(caller, outcome) ==
    IF caller = "cron" THEN outcome = "failed" ELSE isRunning

\* isRunning once checkSLAs has settled: the cron callback's finally block
\* clears it; start() never touches it.
IsRunningAfter(caller, outcome) ==
    IF caller = "cron" THEN FALSE ELSE isRunning

\* A callback that ends the process on a failed check, as start() does.
PhaseAfterExitOnFailure(caller, outcome) ==
    IF outcome = "failed" THEN "exited"
    ELSE IF caller = "start" THEN "scheduled" ELSE phase

\* The application once checkSLAs has settled: start() installs the schedule
\* after a successful initial check and calls process.exit(1) after a failed
\* one; the cron callback only logs.
PhaseAfter(caller, outcome) ==
    IF caller = "start"
    THEN (IF outcome = "completed" THEN "scheduled" ELSE "exited")
    ELSE phase

\* checkSLAs settles (resolves: "completed", rejects: "failed") and its
\* caller continues.
Settle(e, x, outcome) ==
    /\ execs' = [i \in DOMAIN execs \ {e} |-> execs[i]]
    /\ last' = << [x EXCEPT !.pc = outcome] >>
    /\ isRunning' = IsRunningAfter(x.caller, outcome)
    /\ phase' = PhaseAfter(x.caller, outcome)

\* sendNotifications from position `from` of TierOrder on: the notification
\* service is called for the next list that is not empty; when there is none
\* sendNotifications returns and checkSLAs completes.
Proceed(e, x, from) ==
    LET k == NextNonEmpty(x, from)
    IN  IF k = 0
        THEN Settle(e, x, "completed")
        ELSE /\ execs' = [execs EXCEPT ![e] =
                    [x EXCEPT !.pc = "dispatch",
                              !.tier = k,
                              !.calls = Append(@,
                                  [tier |-> TierOrder[k],
                                   batch |-> BatchOf(x, TierOrder[k]),
                                   result |-> "pending"])]]
             /\ UNCHANGED <<last, isRunning, phase>>

\* checkSLAs is called and runs up to `await this.dataReader.getTickets()`.
BeginCheck(caller) ==
    /\ started' = started + 1
    /\ execs' = (started + 1) :>
                    [ caller |-> caller, pc |-> "getTickets", tier |-> 0,
                      tickets |-> <<>>, times |-> <<>>,
                      slaViolations |-> <<>>, criticalTickets |-> <<>>,
                      warningTickets |-> <<>>, calls |-> <<>> ]
                @@ execs

\* ------------------------------------------------------------------ actions

Init ==
    /\ phase = "constructed"
    /\ isRunning = FALSE
    /\ execs = <<>>
    /\ started = 0
    /\ triggers = 0
    /\ dropped = 0
    /\ clock \in { t \in ClockReadings : \A u \in ClockReadings : t <= u }
    /\ last = <<>>
    /\ env = EnvUnset
    /\ reader = NoSource
    /\ probe = <<>>

\* A start() that installs the schedule before the initial check settles.
StartSchedulingFirst ==
    /\ phase = "constructed"
    /\ phase' = "scheduled"
    /\ BeginCheck("start")
    /\ UNCHANGED <<isRunning, triggers, dropped, clock, last>>
    /\ UNCHANGED dataVars

\* app.start(): the initial check is awaited before the schedule is installed.
Start ==
    /\ phase = "constructed"
    /\ phase' = "starting"
    /\ BeginCheck("start")
    /\ UNCHANGED <<isRunning, triggers, dropped, clock, last>>
    /\ UNCHANGED dataVars

\* A callback without the isRunning test.
CronGuardMissing == TRUE

\* The guard of the cron callback.
CronGuard == ~isRunning

\* A callback that starts a cycle without setting isRunning.
TriggerStartFlagUnset ==
    /\ phase = "scheduled"
    /\ triggers < MaxTriggers
    /\ CronGuard
    /\ triggers' = triggers + 1
    /\ BeginCheck("cron")
    /\ UNCHANGED <<phase, isRunning, dropped, clock, last>>
    /\ UNCHANGED dataVars

\* The schedule fires and the callback starts a cycle.
TriggerStart ==
    /\ phase = "scheduled"
    /\ triggers < MaxTriggers
    /\ CronGuard
    /\ triggers' = triggers + 1
    /\ isRunning' = TRUE
    /\ BeginCheck("cron")
    /\ UNCHANGED <<phase, dropped, clock, last>>
    /\ UNCHANGED dataVars

\* The schedule fires while isRunning is set: the callback does nothing.
TriggerDrop ==
    /\ phase = "scheduled"
    /\ triggers < MaxTriggers
    /\ ~CronGuard
    /\ triggers' = triggers + 1
    /\ dropped' = dropped + 1
    /\ UNCHANGED <<phase, isRunning, execs, started, clock, last>>
    /\ UNCHANGED dataVars

\* getTickets() resolves: the loop evaluates and classifies every ticket and
\* sendNotifications starts.
GetTicketsResolves(e) ==
    /\ phase # "exited"
    /\ execs[e].pc = "getTickets"
    /\ \E tickets \in TicketLists :
         \E times \in ReadingsFrom(Len(tickets)) :
            LET b == ForEachTicket(tickets, times, 1, EmptyBatches)
                x == [execs[e] EXCEPT !.tickets = tickets,
                                      !.times = times,
                                      !.slaViolations = b.slaViolations,
                                      !.criticalTickets = b.criticalTickets,
                                      !.warningTickets = b.warningTickets]
            IN  /\ clock' = IF Len(times) > 0 THEN times[Len(times)] ELSE clock
                /\ Proceed(e, x, 1)
    /\ UNCHANGED <<started, triggers, dropped>>
    /\ UNCHANGED dataVars

\* getTickets() rejects: checkSLAs logs and rethrows.
GetTicketsRejects(e) ==
    /\ phase # "exited"
    /\ execs[e].pc = "getTickets"
    /\ Settle(e, execs[e], "failed")
    /\ UNCHANGED <<started, triggers, dropped, clock>>
    /\ UNCHANGED dataVars

\* The execution with its pending call of the notification service marked.
Answered(x, result) ==
    [x EXCEPT !.calls[Len(x.calls)].result = result]

\* The pending call of the notification service resolves: sendNotifications
\* goes on with the tiers after it.
DispatchResolves(e) ==
    /\ phase # "exited"
    /\ execs[e].pc = "dispatch"
    /\ Proceed(e, Answered(execs[e], "ok"), execs[e].tier + 1)
    /\ UNCHANGED <<started, triggers, dropped, clock>>
    /\ UNCHANGED dataVars

\* A sendNotifications without its catch block: the rejection reaches
\* checkSLAs, which logs and rethrows.
DispatchRejectsPropagates(e) ==
    /\ phase # "exited"
    /\ execs[e].pc = "dispatch"
    /\ Settle(e, Answered(execs[e], "failed"), "failed")
    /\ UNCHANGED <<started, triggers, dropped, clock>>
    /\ UNCHANGED dataVars

\* The pending call of the notification service rejects: the catch block of
\* sendNotifications logs, sendNotifications returns, checkSLAs completes.
DispatchRejects(e) ==
    /\ phase # "exited"
    /\ execs[e].pc = "dispatch"
    /\ Settle(e, Answered(execs[e], "failed"), "completed")
    /\ UNCHANGED <<started, triggers, dropped, clock>>
    /\ UNCHANGED dataVars

Next ==
    \/ Start
    \/ TriggerStart
    \/ TriggerDrop
    \/ \E e \in DOMAIN execs : GetTicketsResolves(e)
    \/ \E e \in DOMAIN execs : GetTicketsRejects(e)
    \/ \E e \in DOMAIN execs : DispatchResolves(e)
    \/ \E e \in DOMAIN execs : DispatchRejects(e)

Spec == Init /\ [][Next]_vars

\* The source and the notification service answer every call in the end.
FairSpec ==
    /\ Spec
    /\ WF_vars(\E e \in DOMAIN execs :
                   GetTicketsResolves(e) \/ GetTicketsRejects(e))
    /\ WF_vars(\E e \in DOMAIN execs :
                   DispatchResolves(e) \/ DispatchRejects(e))

\* ------------------------------------ the configuration and the data reader

\* Any environment, any file of either type.
DataInit ==
    /\ phase = "constructed"
    /\ isRunning = FALSE
    /\ execs = <<>>
    /\ started = 0
    /\ triggers = 0
    /\ dropped = 0
    /\ clock \in { t \in ClockReadings : \A u \in ClockReadings : t <= u }
    /\ last = <<>>
    /\ env \in EnvChoices
    /\ reader \in Sources
    /\ probe = <<>>

\* getTickets resolves with the tickets read.
ReadResolves ==
    /\ reader.state = "pending"
    /\ LET r == getTickets(reader.type, reader.rows)
       IN  /\ ~r.rejected
           /\ reader' = [reader EXCEPT !.state = "resolved",
                                       !.tickets = r.tickets]
    /\ UNCHANGED <<appVars, env, probe>>

\* getTickets logs the error of the read and rethrows it.
ReadRejects ==
    /\ reader.state = "pending"
    /\ getTickets(reader.type, reader.rows).rejected
    /\ reader' = [reader EXCEPT !.state = "rejected"]
    /\ UNCHANGED <<appVars, env, probe>>

\* The body of the loop of checkSLAs on ticket i of the list, at clock
\* reading now; moment(ticket.created_at) is the instant of the ISO string.
EvaluateTicket(i, now) ==
    /\ reader.state = "resolved"
    /\ LET ticket == reader.tickets[i]
           slaStatus ==
               calculateSLAStatus(
                   [ticket EXCEPT !.created_at = DateGetTime(@)[1]], now)
       IN  probe' = << [ pos |-> i, ticket |-> ticket, now |-> now,
                         slaStatus |-> slaStatus,
                         tier |-> Classify(slaStatus) ] >>
    /\ UNCHANGED <<appVars, env, reader>>

DataNext ==
    \/ ReadResolves
    \/ ReadRejects
    \/ \E i \in DOMAIN reader.tickets :
          \E now \in ClockReadings : EvaluateTicket(i, now)

DataSpec == DataInit /\ [][DataNext]_vars

\* --------------------------------------------------------------- properties

\* Every execution of checkSLAs in view: those in progress and the one that
\* settled last.
Cycles == { execs[e] : e \in DOMAIN execs } \cup { last[i] : i \in DOMAIN last }

\* The tier of the i-th ticket of cycle x: the list that holds its entry.
InBatch(x, tier, i) ==
    \E j \in DOMAIN BatchOf(x, tier) : BatchOf(x, tier)[j].pos = i

TierOf(x, i) ==
    IF InBatch(x, "violation", i) THEN "violation"
    ELSE IF InBatch(x, "critical", i) THEN "critical"
    ELSE IF InBatch(x, "warning", i) THEN "warning"
    ELSE "none"

\* None < Warning < Critical < Violation
TierRank(tier) ==
    CASE tier = "none" -> 0
      [] tier = "warning" -> 1
      [] tier = "critical" -> 2
      [] tier = "violation" -> 3

\* Milliseconds between the creation of the i-th ticket of cycle x and the
\* clock reading it was evaluated at.
ElapsedMs(x, i) == x.times[i] - x.tickets[i].created_at

\* C1: at most one execution of checkSLAs is in progress in every reachable
\* state, the initial check of start() included.
C1_SingleFlight == Cardinality(DOMAIN execs) <= 1

\* A trigger has been dropped, and the one cycle in progress is the second
\* execution of checkSLAs (the initial check came first).
C1_Witness ==
    /\ dropped >= 1
    /\ started >= 2
    /\ Cardinality(DOMAIN execs) = 1
    /\ \A e \in DOMAIN execs : execs[e].pc = "getTickets"

\* C2: a firing of the schedule while isRunning is set changes neither the
\* flag, the application, the executions in progress (their lists and their
\* calls of the notification service) nor the settled one, and an execution
\* of checkSLAs starts only in a step that is a firing or start().
C2_DroppedTriggerIsNoOp ==
    [][ /\ (triggers' # triggers /\ isRunning)
            => UNCHANGED <<phase, isRunning, execs, started, clock, last>>
        /\ (started' # started)
            => (triggers' # triggers \/ phase = "constructed") ]_vars

\* A firing was dropped while the cycle in progress waits for the
\* notification service.
C2_Witness ==
    /\ dropped >= 1
    /\ \E e \in DOMAIN execs :
          execs[e].caller = "cron" /\ execs[e].pc = "dispatch"

\* C3: isRunning, once set, is cleared again (the cycle returns to Idle)
\* whenever the source and the notification service answer, and a firing
\* that finds it cleared starts a new cycle.
C3_RunningReturnsToIdle ==
    /\ isRunning ~> ~isRunning
    /\ [][ (triggers' # triggers /\ ~isRunning)
              => (isRunning' /\ started' = started + 1) ]_vars

\* A cycle started by the schedule failed, and a later firing has started
\* the next one.
C3_Witness ==
    /\ last # <<>>
    /\ last[1].caller = "cron"
    /\ last[1].pc = "failed"
    /\ isRunning
    /\ \E e \in DOMAIN execs : execs[e].caller = "cron"

C5_LaterTiersStillDispatched ==
    \A i \in DOMAIN last :
        LET x == last[i]
        IN  /\ \A k \in DOMAIN x.calls :
                 x.calls[k].result = "failed" =>
                    \A t \in DOMAIN TierOrder :
                       ( /\ \E u \in 1..(t - 1) : TierOrder[u] = x.calls[k].tier
                         /\ Len(BatchOf(x, TierOrder[t])) > 0 )
                       => \E m \in DOMAIN x.calls :
                             x.calls[m].tier = TierOrder[t]
            /\ \A k, m \in DOMAIN x.calls :
                 x.calls[k].tier = x.calls[m].tier => k = m

\* The tiers of TierOrder whose list in cycle x is not empty, in order.
NonEmptyTiers(x) == SelectSeq(TierOrder, LAMBDA t : Len(BatchOf(x, t)) > 0)

\* C6 as stated: a cycle that got its tickets and has settled has called the
\* notification service once for each non-empty tier, in the order violation,
\* critical, warning, each time with the whole list, and for no empty tier.
C6_OncePerNonEmptyTierInOrder ==
    \A i \in DOMAIN last :
        LET x == last[i]
        IN  x.pc = "completed" =>
               /\ Len(x.calls) = Len(NonEmptyTiers(x))
               /\ \A k \in DOMAIN x.calls :
                     /\ x.calls[k].tier = NonEmptyTiers(x)[k]
                     /\ x.calls[k].batch = BatchOf(x, x.calls[k].tier)

\* C7: in every cycle each evaluated ticket is in the list the first matching
\* rule names and in no other: violated -> violations; otherwise
\* percentageUsed >= 0.95 -> criticals; otherwise >= 0.80 -> warnings;
\* otherwise in none.
C7_FirstMatchPrecedence ==
    \A x \in Cycles :
        \A i \in DOMAIN x.tickets :
            LET s == calculateSLAStatus(x.tickets[i], x.times[i])
                v == InBatch(x, "violation", i)
                c == InBatch(x, "critical", i)
                w == InBatch(x, "warning", i)
            IN  /\ s.isViolated => (v /\ ~c /\ ~w)
                /\ (~s.isViolated /\ s.percentageUsed >= 950) => (~v /\ c /\ ~w)
                /\ (~s.isViolated /\ s.percentageUsed >= 800
                      /\ s.percentageUsed < 950) => (~v /\ ~c /\ w)
                /\ (~s.isViolated /\ s.percentageUsed < 800) => (~v /\ ~c /\ ~w)

\* One cycle holds a violated ticket, whose percentageUsed is past the
\* critical threshold too, and a ticket that is critical only.
C7_Witness ==
    \E x \in Cycles :
        /\ \E j \in DOMAIN x.slaViolations :
              x.slaViolations[j].slaStatus.percentageUsed >= 950
        /\ Len(x.criticalTickets) > 0

\* C8 as stated: a ticket is in the warning list only if its exact ratio
\* elapsed / SLA time is at least 0.80, and in the critical list only if it is
\* at least 0.95.
C8_ClassifiedOnExactRatio ==
    \A x \in Cycles :
        /\ \A j \in DOMAIN x.warningTickets :
              LET y == x.warningTickets[j]
              IN  5 * ElapsedMs(x, y.pos) >= 4 * y.slaStatus.slaHours * MS_PER_HOUR
        /\ \A j \in DOMAIN x.criticalTickets :
              LET y == x.criticalTickets[j]
              IN  20 * ElapsedMs(x, y.pos) >= 19 * y.slaStatus.slaHours * MS_PER_HOUR

\* C9: a ticket with an 8 hour SLA evaluated 6.4h after its creation is a
\* warning, 7.6h after it critical, 8h after it not violated and critical,
\* and one clock tick later a violation.
C9_BoundaryExactness ==
    \A x \in Cycles :
        \A i \in DOMAIN x.tickets :
            LET s == calculateSLAStatus(x.tickets[i], x.times[i])
                e == ElapsedMs(x, i)
            IN  s.slaHours = 8 =>
                  /\ e = (64 * MS_PER_HOUR) \div 10 => TierOf(x, i) = "warning"
                  /\ e = (76 * MS_PER_HOUR) \div 10 => TierOf(x, i) = "critical"
                  /\ e = 8 * MS_PER_HOUR =>
                        ~s.isViolated /\ TierOf(x, i) = "critical"
                  /\ e = 8 * MS_PER_HOUR + 1 =>
                        s.isViolated /\ TierOf(x, i) = "violation"

\* One cycle evaluated an 8 hour ticket at its deadline and, again, one tick
\* after it.
C9_Witness ==
    \E x \in Cycles :
        \E i, j \in DOMAIN x.tickets :
            /\ x.tickets[i] = x.tickets[j]
            /\ calculateSLAStatus(x.tickets[i], x.times[i]).slaHours = 8
            /\ ElapsedMs(x, i) = 8 * MS_PER_HOUR
            /\ ElapsedMs(x, j) = 8 * MS_PER_HOUR + 1

\* C10: of two evaluations of the same ticket, the later one has a
\* percentageUsed and a tier at least as high as the earlier one.
C10_Monotone ==
    \A x, y \in Cycles :
        \A i \in DOMAIN x.tickets :
            \A j \in DOMAIN y.tickets :
                ( /\ x.tickets[i].created_at = y.tickets[j].created_at
                  /\ x.tickets[i].priority = y.tickets[j].priority
                  /\ x.times[i] <= y.times[j] )
                => /\ calculateSLAStatus(x.tickets[i], x.times[i]).percentageUsed
                        <= calculateSLAStatus(y.tickets[j], y.times[j]).percentageUsed
                   /\ TierRank(TierOf(x, i)) <= TierRank(TierOf(y, j))

\* The same ticket was a warning in the cycle that settled last and is a
\* violation in the cycle in progress.
C10_Witness ==
    /\ last # <<>>
    /\ \E e \in DOMAIN execs :
          \E i \in DOMAIN last[1].tickets :
             \E j \in DOMAIN execs[e].tickets :
                /\ last[1].tickets[i] = execs[e].tickets[j]
                /\ last[1].times[i] < execs[e].times[j]
                /\ TierOf(last[1], i) = "warning"
                /\ TierOf(execs[e], j) = "violation"

C13_PartitionComplete ==
    \A x \in Cycles :
        LET entries == x.slaViolations \o x.criticalTickets \o x.warningTickets
            none == { i \in DOMAIN x.tickets : TierOf(x, i) = "none" }
        IN  /\ \A j, k \in DOMAIN entries :
                  entries[j].pos = entries[k].pos => j = k
            /\ \A j \in DOMAIN entries :
                  /\ entries[j].pos \in DOMAIN x.tickets
                  /\ entries[j].ticket = x.tickets[entries[j].pos]
            /\ Len(x.warningTickets) + Len(x.criticalTickets)
                  + Len(x.slaViolations) + Cardinality(none) = Len(x.tickets)

\* One cycle has a ticket in a list and a ticket in no list.
C13_Witness ==
    \E x \in Cycles :
        /\ Len(x.tickets) = 2
        /\ \E i, j \in DOMAIN x.tickets :
              TierOf(x, i) = "none" /\ TierOf(x, j) # "none"

\* C14: within each of the three lists the entries are in the order of
\* their tickets in the list the source returned.
C14_OrderPreserved ==
    \A x \in Cycles :
        \A t \in DOMAIN TierOrder :
            LET b == BatchOf(x, TierOrder[t])
            IN  \A j, k \in DOMAIN b : j < k => b[j].pos < b[k].pos

\* One list holds two entries.
C14_Witness ==
    \E x \in Cycles :
        \E t \in DOMAIN TierOrder : Len(BatchOf(x, TierOrder[t])) >= 2

\* C18 as stated: two tickets of one cycle with equal created_at and
\* priority get the same status and the same tier.
C18_OneInstantPerCycle ==
    \A x \in Cycles :
        \A i, j \in DOMAIN x.tickets :
            ( /\ x.tickets[i].created_at = x.tickets[j].created_at
              /\ x.tickets[i].priority = x.tickets[j].priority )
            => /\ calculateSLAStatus(x.tickets[i], x.times[i])
                    = calculateSLAStatus(x.tickets[j], x.times[j])
               /\ TierOf(x, i) = TierOf(x, j)

\* A chain of calls of the notification service of a cycle has a failed one.
HasFailedCall(x) == \E k \in DOMAIN x.calls : x.calls[k].result = "failed"

\* C20: a cycle in which a call of the notification service failed has
\* completed all the same, the process lives on with the schedule installed,
\* isRunning is cleared once it has settled, and the next firing can start a
\* cycle.
C20_DispatchFailureContained ==
    \A i \in DOMAIN last :
        HasFailedCall(last[i]) =>
            /\ last[i].pc = "completed"
            /\ phase = "scheduled"
            /\ execs = <<>> => ~isRunning
            /\ (execs = <<>> /\ triggers < MaxTriggers) => ENABLED TriggerStart

\* After a cycle with a failed call, the next cycle has had its first call
\* answered and is making its second.
C20_Witness ==
    /\ last # <<>>
    /\ HasFailedCall(last[1])
    /\ \E e \in DOMAIN execs :
          /\ execs[e].pc = "dispatch"
          /\ Len(execs[e].calls) = 2
          /\ execs[e].calls[1].result = "ok"

\* The row of the file a ticket of the reader was made from.
RawOf(ticket) == CHOOSE r \in RawPool : r.id = ticket.id

\* The spellings of the four priority names.
CaseVariants ==
    [ critical |-> {"critical", "Critical", "CRITICAL"},
      high |-> {"high", "High", "HIGH"},
      medium |-> {"medium", "Medium", "MEDIUM"},
      low |-> {"low", "Low", "LOW"} ]

\* The priority names a raw priority equals, ignoring case.
KnownAs(raw) == { k \in DOMAIN CaseVariants : raw \in CaseVariants[k] }

\* A row whose created_at is there and cannot be parsed.
Unparsable(row) ==
    row.created_at # "" /\ DateGetTime(row.created_at) = <<>>

\* A row with an id, a date and an active status.
Readable(row) ==
    /\ row.id # ""
    /\ DateGetTime(row.created_at) # <<>>
    /\ row.status \in {"", "open", "Open"}

\* C11 as stated: when the file has a row whose created_at cannot be parsed,
\* getTickets still resolves, with a ticket for each readable row and none
\* for the others.
C11_UnparsableCreatedAtSkipped ==
    ( /\ reader.state # "pending"
      /\ \E i \in DOMAIN reader.rows : Unparsable(reader.rows[i]) )
    => /\ reader.state = "resolved"
       /\ \A i \in DOMAIN reader.rows :
             Readable(reader.rows[i])
                <=> \E j \in DOMAIN reader.tickets :
                       reader.tickets[j].id = reader.rows[i].id

\* C15 as stated: every SLA hour value a ticket is evaluated with is
\* positive.
C15_HoursPositive ==
    \A i \in DOMAIN probe : probe[i].slaStatus.slaHours > 0

\* C16 as stated: a ticket whose priority in the file is one of the four
\* names in any letter case is evaluated with that priority's configured
\* hours, a ticket with any other priority value with the default hours.
C16_LookupTotal ==
    \A i \in DOMAIN probe :
        LET raw == RawOf(probe[i].ticket).priority
        IN  /\ \A k \in KnownAs(raw) :
                  probe[i].slaStatus.slaHours = slaConfig[k]
            /\ (KnownAs(raw) = {} /\ raw # "")
                  => probe[i].slaStatus.slaHours = slaConfig.default

\* C17 as stated: a ticket whose priority in the file is unrecognized or
\* absent is evaluated with the default hours: its status and tier are those
\* the default allotment gives.
C17_UnrecognizedAsNoPriority ==
    \A i \in DOMAIN probe :
        LET raw == RawOf(probe[i].ticket).priority
            d == calculateSLAStatus(
                     [ id |-> probe[i].ticket.id, priority |-> "default",
                       created_at |-> DateGetTime(probe[i].ticket.created_at)[1] ],
                     probe[i].now)
        IN  KnownAs(raw) = {}
               => /\ probe[i].slaStatus.slaHours = slaConfig.default
                  /\ [probe[i].slaStatus EXCEPT !.priority = "default"] = d
                  /\ probe[i].tier = Classify(d)

\* C19 as stated: hoursElapsed is never negative, and a ticket created
\* after the instant of its evaluation has hoursElapsed 0, percentageUsed 0,
\* is not violated and is in no list.
C19_FutureTicketElapsedZero ==
    \A i \in DOMAIN probe :
        /\ probe[i].slaStatus.hoursElapsed >= 0
        /\ DateGetTime(probe[i].ticket.created_at)[1] > probe[i].now
              => /\ probe[i].slaStatus.hoursElapsed = 0
                 /\ probe[i].slaStatus.percentageUsed = 0
                 /\ ~probe[i].slaStatus.isViolated
                 /\ probe[i].tier = "none"

\* The entries of the list of tier in cycle x that stand for position i.
EntriesAt(x, tier, i) ==
    { j \in DOMAIN BatchOf(x, tier) : BatchOf(x, tier)[j].pos = i }

\* C21: the lists of a cycle hold exactly the tickets of that cycle's own
\* ticket list that its own clock readings and the configuration put there,
\* each once and with the status computed in that cycle, and nothing else;
\* every call of the notification service carries the cycle's own list; and
\* a ticket that is past its deadline when evaluated is in slaViolations of
\* that cycle, which is the first list the notification service is called
\* with, whatever an earlier cycle did.
C21_CyclesStateless ==
    \A x \in Cycles :
        /\ \A t \in DOMAIN TierOrder :
              \A j \in DOMAIN BatchOf(x, TierOrder[t]) :
                  BatchOf(x, TierOrder[t])[j].pos \in DOMAIN x.tickets
        /\ \A k \in DOMAIN x.calls :
              x.calls[k].batch = BatchOf(x, x.calls[k].tier)
        /\ \A i \in DOMAIN x.tickets :
              LET slaStatus == calculateSLAStatus(x.tickets[i], x.times[i])
                  tier == Classify(slaStatus)
              IN  /\ \A t \in DOMAIN TierOrder :
                        IF TierOrder[t] = tier
                        THEN /\ Cardinality(EntriesAt(x, tier, i)) = 1
                             /\ \A j \in EntriesAt(x, tier, i) :
                                   /\ BatchOf(x, tier)[j].ticket = x.tickets[i]
                                   /\ BatchOf(x, tier)[j].slaStatus = slaStatus
                        ELSE EntriesAt(x, TierOrder[t], i) = {}
                  /\ x.times[i] > x.tickets[i].created_at
                                     + slaStatus.slaHours * MS_PER_HOUR
                     => /\ tier = "violation"
                        /\ x.calls # <<>>
                        /\ x.calls[1].tier = "violation"
                        /\ \E j \in DOMAIN x.calls[1].batch :
                              x.calls[1].batch[j].pos = i

\* The same overdue ticket has been dispatched as a violation in the cycle
\* that settled last and is dispatched as a violation again in the cycle in
\* progress.
C21_Witness ==
    /\ last # <<>>
    /\ last[1].calls # <<>>
    /\ last[1].calls[1].tier = "violation"
    /\ \E e \in DOMAIN execs :
          /\ execs[e].calls # <<>>
          /\ execs[e].calls[1].tier = "violation"
          /\ \E j \in DOMAIN last[1].calls[1].batch :
                \E k \in DOMAIN execs[e].calls[1].batch :
                    last[1].calls[1].batch[j].ticket
                        = execs[e].calls[1].batch[k].ticket

\* C24 as stated: isRunning is set exactly while an execution of checkSLAs
\* is in progress.
C24_FlagMirrorsRunner == isRunning <=> execs # <<>>

\* C24 as amended: isRunning is set exactly while an execution of checkSLAs
\* started by the callback of the schedule is in progress; during the initial
\* check of start() it stays cleared.
C24_FlagMirrorsTriggeredCycle ==
    /\ isRunning <=> \E e \in DOMAIN execs : execs[e].caller = "cron"
    /\ \A e \in DOMAIN execs :
          execs[e].caller = "start" => (~isRunning /\ phase = "starting")

\* The initial check has completed with the flag cleared, and the first
\* cycle started by the schedule is in progress with the flag set.
C24_Witness ==
    /\ isRunning
    /\ last # <<>>
    /\ last[1].caller = "start"
    /\ last[1].pc = "completed"
    /\ \E e \in DOMAIN execs : execs[e].caller = "cron"

\* The larger of two integers.
Max(a, b) == IF a >= b THEN a ELSE b

\* The SLA time left at the evaluation of probe p, in milliseconds, at full
\* precision: created_at + slaHours - now.
RemainingMs(p) ==
    DateGetTime(p.ticket.created_at)[1] + p.slaStatus.slaHours * MS_PER_HOUR
        - p.now

\* C22: for every evaluated ticket, isViolated holds exactly when now is
\* after created_at + slaHours, that is when the time left at full precision
\* is negative; hoursOverdue is max(0, -time left), rounded to hundredths of
\* an hour like every reported hour figure; and it is 0 when the ticket is
\* not violated.
C22_DerivedFieldsConsistent ==
    \A i \in DOMAIN probe :
        LET p == probe[i]
        IN  /\ p.slaStatus.isViolated <=> RemainingMs(p) < 0
            /\ p.slaStatus.hoursOverdue * (MS_PER_HOUR \div 100) * 2
                  <= 2 * Max(0, 0 - RemainingMs(p)) + (MS_PER_HOUR \div 100)
            /\ p.slaStatus.hoursOverdue * (MS_PER_HOUR \div 100) * 2
                  > 2 * Max(0, 0 - RemainingMs(p)) - (MS_PER_HOUR \div 100)
            /\ ~p.slaStatus.isViolated => p.slaStatus.hoursOverdue = 0

\* A ticket evaluated after its deadline, with hours overdue to report.
C22_Witness ==
    \E i \in DOMAIN probe :
        /\ probe[i].slaStatus.isViolated
        /\ probe[i].slaStatus.hoursOverdue > 0

\* The spellings of the statuses of an active ticket.
ActiveSpellings ==
    { "open", "Open", "OPEN", "in-progress", "In-Progress", "IN-PROGRESS",
      "pending", "Pending", "PENDING", "waiting", "Waiting", "WAITING",
      "new", "New", "NEW" }

\* C23: every ticket getTickets resolves with, from a CSV or a JSON file,
\* has an id, a created_at that is the ISO string of an instant, a status
\* that is one of the active statuses and a priority that is one of the four
\* priority names, ignoring case.
C23_ReaderOutputValid ==
    reader.state = "resolved" =>
        \A j \in DOMAIN reader.tickets :
            LET t == reader.tickets[j]
            IN  /\ t.id # ""
                /\ t.created_at # ""
                /\ DateGetTime(t.created_at) # <<>>
                /\ ToISOString(DateGetTime(t.created_at)[1]) = t.created_at
                /\ t.status \in ActiveSpellings
                /\ KnownAs(t.priority) # {}

\* A JSON file with a row of unrecognized priority and a row without
\* priority has been read, and both rows have got through.
C23_Witness ==
    /\ reader.state = "resolved"
    /\ reader.type = "json"
    /\ Len(reader.tickets) = 2
    /\ \E i, j \in DOMAIN reader.rows :
          /\ reader.rows[i].priority = "urgent"
          /\ reader.rows[j].priority = ""

====
